---- MODULE Spec2Model ----
(***************************************************************************)
(* Model of the Jenkins MCP server's API client and dispatch layer:        *)
(* the CSRF crumb issuer (src/client/http-client.ts, createCrumbIssuer),   *)
(* the mutating resource operations that use it (buildItem, stopBuild,     *)
(* cancelQueueItem), the queue-id extraction of buildItem, and the         *)
(* registry dispatch of executeTool with its argument validation and       *)
(* error mapping, the job path encoding (client/paths.ts), the regex       *)
(* query filter of queryItems and the running builds of getRunningBuilds.  *)
(*                                                                         *)
(* Every asynchronous function is cut at its awaits: one action per        *)
(* synchronous segment.  JavaScript strings are TLA+ strings; JavaScript   *)
(* values of unknown type are records [k, s, n] (kind, string, number).    *)
(***************************************************************************)
EXTENDS Integers, Sequences, FiniteSets, TLC

VARIABLES
    cached,       \* createCrumbIssuer: `cached` (CachedCrumb | undefined)
    cacheTtlMs,   \* createCrumbIssuer: options.cacheTtlMs (0: not configured)
    now,          \* Date.now()
    calls,        \* the invocations in progress or finished, one per slot
    everFailed,   \* history: some crumb fetch has failed
    lastFetch,    \* history: outcome of the crumb fetch that completed last
    okAfterFail,  \* history: a crumb fetch succeeded after another had failed
    location,     \* buildItem: response.headers.location under test
    queueId,      \* buildItem: what the call produced for `location`
    fullName,     \* encodeJobName: the job full name under test
    path,         \* encodeJobName: what it produced for `fullName`
    items,        \* queryItems: what getAllItems answered
    queryParams,  \* queryItems: `params`, the three patterns
    filtered,     \* queryItems: what it produced for `items` and `params`
    jobs,         \* getRunningBuilds: response.data.jobs
    runningBuilds, \* getRunningBuilds: what it produced for `jobs`
    env,          \* loadJenkinsConfig: the environment under test
    jenkinsConfig, \* loadJenkinsConfig: what it produced for `env`
    axiosConfig,  \* JenkinsHttpClient.constructor: what it built from a config
    parameters,   \* buildItem: the parameters argument under test
    endpoint,     \* buildItem: the path it posts to for `fullName`, `parameters`
    advertised    \* tools/list: the names of the tools it answered

\* the inputs and results of the pure functions
pureVars ==
    <<fullName, path, items, queryParams, filtered, jobs, runningBuilds, env, jenkinsConfig,
      axiosConfig, parameters, endpoint, advertised>>

vars == <<cached, cacheTtlMs, now, calls, everFailed, lastFetch, okAfterFail, location, queueId,
          pureVars>>

-----------------------------------------------------------------------------
(* Bounds of the model.                                                    *)

\* number of invocations that can be in flight at once
MaxCalls == 2
\* largest value of the clock
MaxTime == 3
\* largest configured cache TTL
MaxTtl == 2
\* longest Location header enumerated character by character
MaxLocLen == 4

\* most '/'-separated segments of a job full name
MaxSegments == 3

\* longest item list getAllItems answers
MaxItems == 3

\* longest job list the server answers getRunningBuilds with
MaxJobs == 2

Calls == 1..MaxCalls

-----------------------------------------------------------------------------
(* JavaScript strings.                                                     *)

CharAt(s, i) == SubSeq(s, i, i)

UpperToLower ==
    [c \in {"A", "B", "C", "D", "E", "F", "G", "H", "I", "J", "K", "L", "M", "N", "O",
            "P", "Q", "R", "S", "T", "U", "V", "W", "X", "Y", "Z"} |->
        CASE c = "A" -> "a" [] c = "B" -> "b" [] c = "C" -> "c" [] c = "D" -> "d"
          [] c = "E" -> "e" [] c = "F" -> "f" [] c = "G" -> "g" [] c = "H" -> "h"
          [] c = "I" -> "i" [] c = "J" -> "j" [] c = "K" -> "k" [] c = "L" -> "l"
          [] c = "M" -> "m" [] c = "N" -> "n" [] c = "O" -> "o" [] c = "P" -> "p"
          [] c = "Q" -> "q" [] c = "R" -> "r" [] c = "S" -> "s" [] c = "T" -> "t"
          [] c = "U" -> "u" [] c = "V" -> "v" [] c = "W" -> "w" [] c = "X" -> "x"
          [] c = "Y" -> "y" [] c = "Z" -> "z"]

\* s.toLowerCase().includes(sub), for a lower-case sub
LowerIncludes(s, sub) ==
    \E i \in 1..(Len(s) - Len(sub) + 1) :
        \A j \in 1..Len(sub) : LET c == CharAt(s, i + j - 1)
                               IN  (IF c \in DOMAIN UpperToLower THEN UpperToLower[c] ELSE c)
                                       = CharAt(sub, j)

IsSpace(c) == c \in {" ", "\t", "\n"}

RECURSIVE TrimStart(_)
TrimStart(s) ==
    IF s # "" /\ IsSpace(CharAt(s, 1)) THEN TrimStart(SubSeq(s, 2, Len(s))) ELSE s

RECURSIVE TrimEnd(_)
TrimEnd(s) ==
    IF s # "" /\ IsSpace(CharAt(s, Len(s))) THEN TrimEnd(SubSeq(s, 1, Len(s) - 1)) ELSE s

\* String.prototype.trim
Trim(s) == TrimEnd(TrimStart(s))

IsDigit(c) == c \in {"0", "1", "2", "3", "4", "5", "6", "7", "8", "9"}

DigitVal(c) ==
    CASE c = "0" -> 0 [] c = "1" -> 1 [] c = "2" -> 2 [] c = "3" -> 3 [] c = "4" -> 4
      [] c = "5" -> 5 [] c = "6" -> 6 [] c = "7" -> 7 [] c = "8" -> 8 [] c = "9" -> 9

RECURSIVE DigitPrefix(_)
\* the longest prefix of s made of decimal digits
DigitPrefix(s) ==
    IF s # "" /\ IsDigit(CharAt(s, 1))
    THEN CharAt(s, 1) \o DigitPrefix(SubSeq(s, 2, Len(s)))
    ELSE ""

RECURSIVE DecimalValue(_)
DecimalValue(ds) ==
    IF ds = "" THEN 0
    ELSE 10 * DecimalValue(SubSeq(ds, 1, Len(ds) - 1)) + DigitVal(CharAt(ds, Len(ds)))

RECURSIVE Split(_, _)
\* String.prototype.split(sep) for a one-character separator
Split(s, sep) ==
    IF \A i \in 1..Len(s) : CharAt(s, i) # sep
    THEN <<s>>
    ELSE LET i == CHOOSE j \in 1..Len(s) :
                      CharAt(s, j) = sep /\ \A k \in 1..(j - 1) : CharAt(s, k) # sep
         IN  <<SubSeq(s, 1, i - 1)>> \o Split(SubSeq(s, i + 1, Len(s)), sep)

-----------------------------------------------------------------------------
(* JavaScript values: [k |-> kind, s |-> string part, n |-> integer part]. *)

Undefined == [k |-> "undefined", s |-> "", n |-> 0]
Null == [k |-> "null", s |-> "", n |-> 0]
Str(s) == [k |-> "string", s |-> s, n |-> 0]
\* an integral number
Num(n) == [k |-> "number", s |-> "int", n |-> n]
\* the number n + 0.5
Frac(n) == [k |-> "number", s |-> "frac", n |-> n]
NaN == [k |-> "number", s |-> "NaN", n |-> 0]
\* true or false
Bool(b) == [k |-> "boolean", s |-> IF b THEN "true" ELSE "false", n |-> 0]
\* an array
Arr == [k |-> "array", s |-> "", n |-> 0]
\* an object literal; s names its content
Obj(s) == [k |-> "object", s |-> s, n |-> 0]

\* the typeof operator
TypeOf(v) ==
    CASE v.k = "undefined" -> "undefined"
      [] v.k = "string" -> "string"
      [] v.k = "number" -> "number"
      [] v.k = "boolean" -> "boolean"
      [] OTHER -> "object"

\* Object.getPrototypeOf for the values with typeof "object"
GetPrototypeOf(v) ==
    CASE v.k = "object" -> "Object.prototype"
      [] v.k = "array" -> "Array.prototype"
      [] OTHER -> "null"

\* what a function call produced: a returned value or a thrown error
Return(v) == [thrown |-> FALSE, mcp |-> FALSE, code |-> "", msg |-> "", val |-> v]
\* throw new Error(msg)
Throw(msg) == [thrown |-> TRUE, mcp |-> FALSE, code |-> "", msg |-> msg, val |-> Undefined]
\* throw new McpError(code, msg)
ThrowMcp(code, msg) ==
    [thrown |-> TRUE, mcp |-> TRUE, code |-> code, msg |-> msg, val |-> Undefined]
\* no outcome yet
Pending == [thrown |-> FALSE, mcp |-> FALSE, code |-> "", msg |-> "", val |-> Str("<pending>")]

-----------------------------------------------------------------------------
(* buildItem: the queue id of the Location header (items-api.ts).          *)

\* Number.parseInt(s, 10): [nan, n]
ParseInt(s) ==
    LET t == TrimStart(s)
        neg == t # "" /\ CharAt(t, 1) = "-"
        signed == t # "" /\ CharAt(t, 1) \in {"-", "+"}
        body == IF signed THEN SubSeq(t, 2, Len(t)) ELSE t
        ds == DigitPrefix(body)
    IN  IF ds = "" THEN [nan |-> TRUE, n |-> 0]
        ELSE [nan |-> FALSE, n |-> IF neg THEN 0 - DecimalValue(ds) ELSE DecimalValue(ds)]

\* location.split('/').slice(-1)[0]
IdSegmentLast(loc) ==
    LET segs == Split(loc, "/")
    IN  segs[Len(segs)]

\* location.split('/').slice(-2, -1)[0], converted to a string by parseInt
IdSegment(loc) ==
    LET segs == Split(loc, "/")
    IN  IF Len(segs) >= 2 THEN segs[Len(segs) - 1] ELSE "undefined"

parseQueueIdFromLocation(loc) ==
    LET parsed == ParseInt(IdSegment(loc))
    IN  IF parsed.nan \/ parsed.n < 0
        THEN Throw("Jenkins returned an invalid queue id in Location header: \""
                       \o loc \o "\".")
        ELSE Return(Num(parsed.n))

\* buildItem after its POST returned: loc is response.headers?.location
BuildItemResult(loc) ==
    IF loc.k = "undefined" \/ loc = Str("")
    THEN Throw("Jenkins did not return a queue location (Location header missing) "
                   \o "for build request.")
    ELSE parseQueueIdFromLocation(loc.s)

RECURSIVE StringsOfLen(_)
StringsOfLen(n) ==
    IF n = 0 THEN {""} ELSE {s \o c : s \in StringsOfLen(n - 1), c \in {"/", "4", "2", "0", "a", "-", " "}}

\* Location headers of a real server, of one that breaks the contract, and
\* every short string
Locations ==
    {Undefined}
        \cup {Str(s) : s \in
                { "http://ci.example/job/foo/queue/item/42/",
                  "http://ci.example/queue/item/7/",
                  "http://ci.example/queue/item/0/",
                  "http://ci.example/queue/item/notanumber/",
                  "http://ci.example/queue/item/42abc/",
                  "http://ci.example/queue/item/-5/",
                  "http://ci.example/queue/item//",
                  "http://ci.example/queue/item/42" }}
                \cup {Str(s) : s \in UNION {StringsOfLen(n) : n \in 0..MaxLocLen}}

-----------------------------------------------------------------------------
(* The crumb issuer (http-client.ts, createCrumbIssuer).                   *)

\* the cached value null: the server issues no crumb
NullCrumb == [null |-> TRUE, crumb |-> "", field |-> ""]
Crumb(token, field) == [null |-> FALSE, crumb |-> token, field |-> field]

\* what /crumbIssuer/api/json can answer
Crumbs == {Crumb("t1", "Jenkins-Crumb"), Crumb("t2", ".crumb")}

\* `cached` undefined
NotCached == [set |-> FALSE, value |-> NullCrumb, cachedAt |-> 0]

\* an isExpired that drops an entry as soon as its age reaches the TTL
isExpiredAtTtl(entry) ==
    IF cacheTtlMs = 0 THEN FALSE ELSE now - entry.cachedAt >= cacheTtlMs

\* isExpired(entry), with Date.now() = now
isExpired(entry) ==
    IF cacheTtlMs = 0 THEN FALSE ELSE now - entry.cachedAt > cacheTtlMs

\* getCached that takes a cached null for no entry
getCachedTruthy ==
    IF ~cached.set \/ cached.value.null THEN [hit |-> FALSE, value |-> NullCrumb]
    ELSE IF isExpired(cached) THEN [hit |-> FALSE, value |-> NullCrumb]
    ELSE [hit |-> TRUE, value |-> cached.value]

\* [hit |-> FALSE] stands for the result undefined
getCached ==
    IF ~cached.set THEN [hit |-> FALSE, value |-> NullCrumb]
    ELSE IF isExpired(cached) THEN [hit |-> FALSE, value |-> NullCrumb]
    ELSE [hit |-> TRUE, value |-> cached.value]

\* setCached that keeps an entry already there
setCachedOnce(value) ==
    IF cached.set THEN cached ELSE [set |-> TRUE, value |-> value, cachedAt |-> now]

\* the cache after setCached(value)
setCached(value) == [set |-> TRUE, value |-> value, cachedAt |-> now]

\* the three states of the issuer, as a caller observes them
CrumbState ==
    IF ~getCached.hit THEN "UNRESOLVED"
    ELSE IF getCached.value.null THEN "UNAVAILABLE" ELSE "RESOLVED"

\* an AxiosRequestConfig: its headers (name, value pairs) and its params
Config(headers, params) == [headers |-> headers, params |-> params]
EmptyConfig == Config({}, "")
NoConfig == Config({<<"<none>", "">>}, "<none>")

\* { ...config, headers: { [crumb.field]: crumb.crumb } }
WithCrumbHeaderOnly(config, crumb) ==
    [config EXCEPT !.headers = {<<crumb.field, crumb.crumb>>}]

\* { ...config, headers: { ...config.headers, [crumb.field]: crumb.crumb } }
WithCrumbHeader(config, crumb) ==
    [config EXCEPT !.headers =
        {h \in @ : h[1] # crumb.field} \cup {<<crumb.field, crumb.crumb>>}]

\* an addCrumbHeaders that returns the config as it came
addCrumbHeadersNever(config, crumb) == config

\* addCrumbHeaders once getCrumb has answered `crumb`
addCrumbHeaders(config, crumb) ==
    IF crumb.null THEN config ELSE WithCrumbHeader(config, crumb)

\* the ways the crumb GET fails: status 404, status 403, time-out,
\* a 200 answer without a body
CrumbErrors == {"404", "403", "timeout", "nobody"}

-----------------------------------------------------------------------------
(* Regular expressions and the query filter (items-api.ts).                *)
(* Patterns are alternatives separated by '|'; an alternative is an        *)
(* optional '^', atoms (a character or '.') each optionally followed by    *)
(* '*', and an optional '$'.                                               *)

Contains(s, c) == \E i \in 1..Len(s) : CharAt(s, i) = c

\* why `new RegExp(source)` throws a SyntaxError, or "" when it compiles
SyntaxErrorOf(source) ==
    IF Contains(source, "(") /\ ~Contains(source, ")") THEN "Unterminated group"
    ELSE IF Contains(source, ")") /\ ~Contains(source, "(") THEN "Unmatched ')'"
    ELSE IF Contains(source, "[") /\ ~Contains(source, "]")
    THEN "Unterminated character class"
    ELSE IF \E i \in 1..Len(source) :
                CharAt(source, i) = "*" /\ (i = 1 \/ CharAt(source, i - 1) \in {"|", "^", "*"})
    THEN "Nothing to repeat"
    ELSE IF source # "" /\ CharAt(source, Len(source)) = "\\"
    THEN "\\ at end of pattern"
    ELSE ""

\* new RegExp(source): the compiled pattern or the SyntaxError
NewRegExp(source) ==
    IF SyntaxErrorOf(source) = "" THEN Return(Str(source))
    ELSE Throw("Invalid regular expression: /" \o source \o "/: " \o SyntaxErrorOf(source))

RECURSIVE MatchHere(_, _)
\* re matches a prefix of text
MatchHere(re, text) ==
    IF re = "" THEN TRUE
    ELSE IF Len(re) >= 2 /\ CharAt(re, 2) = "*"
    THEN \E k \in 0..Len(text) :
            /\ \A j \in 1..k : CharAt(re, 1) = "." \/ CharAt(text, j) = CharAt(re, 1)
            /\ MatchHere(SubSeq(re, 3, Len(re)), SubSeq(text, k + 1, Len(text)))
    ELSE IF re = "$" THEN text = ""
    ELSE /\ text # ""
         /\ CharAt(re, 1) = "." \/ CharAt(re, 1) = CharAt(text, 1)
         /\ MatchHere(SubSeq(re, 2, Len(re)), SubSeq(text, 2, Len(text)))

\* one alternative matches somewhere in text
MatchAlternative(re, text) ==
    IF re # "" /\ CharAt(re, 1) = "^"
    THEN MatchHere(SubSeq(re, 2, Len(re)), text)
    ELSE \E i \in 1..(Len(text) + 1) : MatchHere(re, SubSeq(text, i, Len(text)))

\* RegExp.prototype.test of a pattern compiled without flags
RegExpTest(source, text) ==
    LET alternatives == Split(source, "|")
    IN  \E i \in 1..Len(alternatives) : MatchAlternative(alternatives[i], text)

\* a JavaScript value in a condition
Truthy(v) ==
    CASE v.k \in {"undefined", "null"} -> FALSE
      [] v.k = "string" -> v.s # ""
      [] v.k = "number" -> v.s # "NaN" /\ ~(v.s = "int" /\ v.n = 0)
      [] v.k = "boolean" -> v.s = "true"
      [] OTHER -> TRUE

QueryItemsParams(class, name, color) ==
    [classPattern |-> class, fullNamePattern |-> name, colorPattern |-> color]

\* `if (pattern) regex = new RegExp(pattern)`: the regex, null, or the error
CompileOne(pattern) == IF Truthy(pattern) THEN NewRegExp(pattern.s) ELSE Return(Null)

\* compileItemRegexes: the three regexes, or the error of the first
\* pattern that does not compile
compileItemRegexes(params) ==
    LET class == CompileOne(params.classPattern)
        name == CompileOne(params.fullNamePattern)
        color == CompileOne(params.colorPattern)
        failed == IF class.thrown THEN class ELSE IF name.thrown THEN name ELSE color
    IN  IF failed.thrown
        THEN [thrown |-> TRUE, msg |-> "Invalid regex pattern: " \o failed.msg,
              classRegex |-> Null, fullNameRegex |-> Null, colorRegex |-> Null]
        ELSE [thrown |-> FALSE, msg |-> "",
              classRegex |-> class.val, fullNameRegex |-> name.val,
              colorRegex |-> color.val]

\* a JenkinsItem: class and fullName are strings, color may be absent
JenkinsItem(class, name, color) == [class |-> class, fullName |-> name, color |-> color]

\* a filter predicate that applies only the first regex that is set
ItemPassesFirstSet(regex, item) ==
    IF regex.classRegex # Null THEN RegExpTest(regex.classRegex.s, item.class)
    ELSE IF regex.fullNameRegex # Null THEN RegExpTest(regex.fullNameRegex.s, item.fullName)
    ELSE IF regex.colorRegex # Null
    THEN Truthy(item.color) /\ RegExpTest(regex.colorRegex.s, item.color.s)
    ELSE TRUE

\* a filter predicate that lets an item without a color pass the color regex
ItemPassesColorless(regex, item) ==
    IF regex.classRegex # Null /\ ~RegExpTest(regex.classRegex.s, item.class) THEN FALSE
    ELSE IF regex.fullNameRegex # Null /\ ~RegExpTest(regex.fullNameRegex.s, item.fullName)
    THEN FALSE
    ELSE IF regex.colorRegex # Null /\ Truthy(item.color)
    THEN RegExpTest(regex.colorRegex.s, item.color.s)
    ELSE TRUE

\* the callback of items.filter
ItemPasses(regex, item) ==
    IF regex.classRegex # Null /\ ~RegExpTest(regex.classRegex.s, item.class) THEN FALSE
    ELSE IF regex.fullNameRegex # Null /\ ~RegExpTest(regex.fullNameRegex.s, item.fullName)
    THEN FALSE
    ELSE IF regex.colorRegex # Null
    THEN IF ~Truthy(item.color) THEN FALSE
         ELSE RegExpTest(regex.colorRegex.s, item.color.s)
    ELSE TRUE

RECURSIVE Filter(_, _)
\* Array.prototype.filter with the callback ItemPasses(regex, _)
Filter(list, regex) ==
    IF list = <<>> THEN <<>>
    ELSE (IF ItemPasses(regex, Head(list)) THEN <<Head(list)>> ELSE <<>>)
             \o Filter(Tail(list), regex)

\* what a function that answers a list produced
Listed(list) == [done |-> TRUE, thrown |-> FALSE, msg |-> "", list |-> list]
ListError(msg) == [done |-> TRUE, thrown |-> TRUE, msg |-> msg, list |-> <<>>]
NoList == [done |-> FALSE, thrown |-> FALSE, msg |-> "", list |-> <<>>]

\* queryItems on the list getAllItems answered
queryItems(params, list) ==
    LET regex == compileItemRegexes(params)
    IN  IF regex.thrown THEN ListError(regex.msg) ELSE Listed(Filter(list, regex))

RECURSIVE ItemLists(_)
\* the lists of n server items
ItemLists(n) ==
    IF n = 0 THEN {<<>>}
    ELSE {<<item>> \o rest : item \in {JenkinsItem("FreeStyleProject", "app", Str("blue")),
                                         JenkinsItem("WorkflowJob", "infra/deploy", Str("red")),
                                         JenkinsItem("Folder", "infra", Undefined),
                                         JenkinsItem("WorkflowJob", "lib", Null)},
                               rest \in ItemLists(n - 1)}

\* queryItems is applied to the list and the patterns under test
QueryItems ==
    /\ filtered = NoList
    /\ filtered' = queryItems(queryParams, items)
    /\ UNCHANGED <<cached, cacheTtlMs, now, calls, everFailed, lastFetch, okAfterFail,
                   location, queueId, fullName, path, items, queryParams, jobs,
                   runningBuilds, env, jenkinsConfig, axiosConfig, parameters, endpoint, advertised>>

-----------------------------------------------------------------------------
(* Running builds (client/apis/builds-api.ts).                             *)

RECURSIVE NumberToString(_)
\* the decimal digits of a non-negative integer, as a template literal
\* writes it
NumberToString(n) ==
    IF n < 10 THEN CharAt("0123456789", n + 1)
    ELSE NumberToString(n \div 10) \o CharAt("0123456789", (n % 10) + 1)

\* a JenkinsBuild of the response: number, building, fullDisplayName
JenkinsBuild(number, building, displayName) ==
    [k |-> "object", number |-> number, building |-> building,
     fullDisplayName |-> displayName]

\* a job of the response; olderRunning: the server runs a build of the job
\* that is not its last one (the response does not show it)
Job(name, lastBuild, olderRunning) ==
    [fullName |-> name, lastBuild |-> lastBuild, olderRunning |-> olderRunning]

\* response.data.jobs: an array, or absent
JobsArray(list) == [k |-> "array", list |-> list]
NoJobs == [k |-> "undefined", list |-> <<>>]

\* the entry getRunningBuilds pushes for a job
RunningBuild(job) ==
    [job.lastBuild EXCEPT
        !.fullDisplayName = job.fullName \o " #" \o NumberToString(job.lastBuild.number)]

RECURSIVE RunningOfAll(_)
\* a loop that pushes the last build of every job that has one
RunningOfAll(list) ==
    IF list = <<>> THEN <<>>
    ELSE (IF Head(list).lastBuild.k = "object" THEN <<RunningBuild(Head(list))>> ELSE <<>>)
             \o RunningOfAll(Tail(list))

RECURSIVE RunningOf(_)
\* the loop over the jobs
RunningOf(list) ==
    IF list = <<>> THEN <<>>
    ELSE (IF Head(list).lastBuild.k = "object" /\ Truthy(Head(list).lastBuild.building)
          THEN <<RunningBuild(Head(list))>> ELSE <<>>)
             \o RunningOf(Tail(list))

\* getRunningBuilds on the body of the response
getRunningBuilds(data) ==
    Listed(RunningOf(IF data.k = "array" THEN data.list ELSE <<>>))

RECURSIVE JobLists(_)
JobLists(n) ==
    IF n = 0 THEN {<<>>}
    ELSE {<<job>> \o rest : job \in {Job(name, lastBuild, olderRunning) :
                                        name \in {"app", "infra/deploy"},
                                        lastBuild \in
                                            {JenkinsBuild(7, Bool(TRUE), ""),
                                             JenkinsBuild(42, Bool(FALSE), ""),
                                             JenkinsBuild(3, Undefined, ""),
                                             [JenkinsBuild(0, Undefined, "")
                                                 EXCEPT !.k = "undefined"],
                                             [JenkinsBuild(0, Undefined, "")
                                                 EXCEPT !.k = "null"]},
                                        olderRunning \in BOOLEAN},
                              rest \in JobLists(n - 1)}

\* getRunningBuilds is applied to the response under test
GetRunningBuilds ==
    /\ runningBuilds = NoList
    /\ runningBuilds' = getRunningBuilds(jobs)
    /\ UNCHANGED <<cached, cacheTtlMs, now, calls, everFailed, lastFetch, okAfterFail,
                   location, queueId, fullName, path, items, queryParams, filtered, jobs,
                   env, jenkinsConfig, axiosConfig, parameters, endpoint, advertised>>

-----------------------------------------------------------------------------
(* Argument bags and validation (utils/validation.ts, tools/handlers).     *)

PatternFields == {"classPattern", "fullNamePattern", "colorPattern"}

FieldNames ==
    {"fullName", "nodeName", "buildNumber", "queueId", "parameters"} \cup PatternFields

\* an argument bag: the value v and, when it is an object, its fields
Bag(v, f) == [v |-> v, f |-> f]
NoFields == [x \in FieldNames |-> Undefined]

\* args?.name
Get(args, name) == IF args.v.k = "object" THEN args.f[name] ELSE Undefined

\* isPlainObject without the prototype test
isPlainObjectLoose(value) == value.k # "null" /\ TypeOf(value) = "object"

isPlainObject(value) ==
    IF value.k = "null" \/ TypeOf(value) # "object" THEN FALSE
    ELSE GetPrototypeOf(value) = "Object.prototype"

assertNonEmptyString(value, label) ==
    IF TypeOf(value) # "string" \/ Trim(value.s) = ""
    THEN Throw(label \o " is required and must be a non-empty string")
    ELSE Return(Undefined)

IsFinite(value) == value.s \in {"int", "frac"}
IsInteger(value) == value.s = "int"

assertPositiveInt(value, label) ==
    IF TypeOf(value) # "number" \/ ~IsFinite(value) \/ ~IsInteger(value) \/ value.n <= 0
    THEN Throw(label \o " must be a positive integer")
    ELSE Return(value)

assertNonNegativeInt(value, label) ==
    IF TypeOf(value) # "number" \/ ~IsFinite(value) \/ ~IsInteger(value) \/ value.n < 0
    THEN Throw(label \o " must be a non-negative integer")
    ELSE Return(value)

\* the first of the checks that throws, or the last one's result
Both(first, second) == IF first.thrown THEN first ELSE second

checkParameters(args) ==
    IF Get(args, "parameters") # Undefined /\ ~isPlainObject(Get(args, "parameters"))
    THEN Throw("parameters must be an object with string values")
    ELSE Return(Undefined)

ItemReadTools == {"get_item", "get_item_config"}
NodeReadTools == {"get_node", "get_node_config"}
BuildTools == {"get_build", "get_build_console_output", "stop_build"}
QueueTools == {"get_queue_item", "cancel_queue_item"}
NoArgTools ==
    {"get_all_items", "query_items", "get_all_nodes", "get_all_queue_items",
     "get_running_builds"}
MutatingTools == {"build_item", "stop_build", "cancel_queue_item"}

\* the 15 keys of the registry
RegistryKeys ==
    ItemReadTools \cup NodeReadTools \cup BuildTools \cup QueueTools
        \cup NoArgTools \cup {"build_item"}

\* normalizeOptionalString: the trimmed string, or undefined
normalizeOptionalString(value) ==
    IF TypeOf(value) # "string" THEN Undefined
    ELSE IF Len(Trim(value.s)) > 0 THEN Str(Trim(value.s)) ELSE Undefined

\* handleQueryItems: the params it hands to client.queryItems
QueryParamsOf(args) ==
    QueryItemsParams(normalizeOptionalString(Get(args, "classPattern")),
                     normalizeOptionalString(Get(args, "fullNamePattern")),
                     normalizeOptionalString(Get(args, "colorPattern")))

\* a queryItems that goes on without the regex that failed to compile
CompilePatternsLenient(args) == Return(Undefined)

\* queryItems up to its await: the patterns are compiled
CompilePatterns(args) ==
    IF compileItemRegexes(QueryParamsOf(args)).thrown
    THEN Throw(compileItemRegexes(QueryParamsOf(args)).msg)
    ELSE Return(Undefined)

\* handlers that check the name-like argument only
ValidateNamesOnly(tool, args) ==
    CASE tool \in ItemReadTools \cup BuildTools \cup {"build_item"} ->
            assertNonEmptyString(Get(args, "fullName"), "fullName")
      [] tool \in NodeReadTools ->
            assertNonEmptyString(Get(args, "nodeName"), "nodeName")
      [] OTHER -> Return(Undefined)

\* the synchronous head of each handler: its validation
Validate(tool, args) ==
    CASE tool \in ItemReadTools ->
            assertNonEmptyString(Get(args, "fullName"), "fullName")
      [] tool = "build_item" ->
            Both(assertNonEmptyString(Get(args, "fullName"), "fullName"),
                 checkParameters(args))
      [] tool \in NodeReadTools ->
            assertNonEmptyString(Get(args, "nodeName"), "nodeName")
      [] tool \in BuildTools ->
            Both(assertNonEmptyString(Get(args, "fullName"), "fullName"),
                 assertPositiveInt(Get(args, "buildNumber"), "buildNumber"))
      [] tool \in QueueTools ->
            assertNonNegativeInt(Get(args, "queueId"), "queueId")
      [] tool = "query_items" -> CompilePatterns(args)
      [] OTHER -> Return(Undefined)

-----------------------------------------------------------------------------
(* executeTool: registry lookup and error mapping (tools/registry.ts).     *)

\* the properties every object literal inherits from Object.prototype
ObjectPrototypeKeys ==
    {"constructor", "toString", "toLocaleString", "valueOf", "hasOwnProperty",
     "isPrototypeOf", "propertyIsEnumerable", "__proto__"}

\* registry[toolName]: an own handler, an inherited property, or undefined
registry(toolName) ==
    IF toolName \in RegistryKeys THEN "own"
    ELSE IF toolName \in ObjectPrototypeKeys THEN "inherited"
    ELSE "undefined"

\* handler(client, args) for an inherited property, called without a receiver
InheritedCall(toolName) ==
    CASE toolName = "toString" -> Return(Str("[object Undefined]"))
      [] toolName = "constructor" -> Return(Obj("client"))
      [] toolName = "__proto__" -> Throw("handler is not a function")
      [] OTHER -> Throw("Cannot convert undefined or null to object")

\* a catch block that wraps nothing
MapErrorRethrow(toolName, outcome) == outcome

\* the catch block of executeTool
MapError(toolName, outcome) ==
    IF ~outcome.thrown \/ outcome.mcp THEN outcome
    ELSE IF LowerIncludes(outcome.msg, "required")
               \/ LowerIncludes(outcome.msg, "invalid")
    THEN ThrowMcp("InvalidParams", outcome.msg)
    ELSE ThrowMcp("InternalError",
                  "Failed to execute tool " \o toolName \o ": " \o outcome.msg)

\* the messages of the errors axios raises for a failed request
HttpErrors ==
    {"Request failed with status code 404", "Request failed with status code 500",
     "timeout of 5000ms exceeded"}

-----------------------------------------------------------------------------
(* Inputs.                                                                 *)

ValidFields ==
    [fullName |-> Str("a"), nodeName |-> Str("n"), buildNumber |-> Num(1),
     queueId |-> Num(7), parameters |-> Undefined, classPattern |-> Undefined,
     fullNamePattern |-> Undefined, colorPattern |-> Undefined]

FieldValues(name) ==
    CASE name = "fullName" -> {Undefined, Null, Str(""), Str(" "), Num(1), Str("team/app")}
      [] name = "nodeName" -> {Undefined, Str(""), Str("  "), Num(1)}
      [] name = "buildNumber" ->
            {Undefined, Num(0), Num(-1), Frac(1), NaN, [NaN EXCEPT !.s = "Infinity"],
             Str("1"), Num(2)}
      [] name = "queueId" -> {Undefined, Num(-1), Frac(0), NaN, Str("7"), Num(0)}
      [] name = "parameters" ->
            {Obj("{}"), Obj("{N:'1'}"), Obj("{N:1}"), Arr, Null, Str("x"), Num(1)}
      [] name = "classPattern" -> {Str("Job$"), Str("("), Num(5)}
      [] name = "fullNamePattern" -> {Str("^a"), Str(" ( "), Str("  ")}
      [] name = "colorPattern" -> {Str("red|blue"), Str("*"), Str("[a"), Arr}

ValidBag == Bag(Obj("args"), ValidFields)

\* the argument bags: objects with one field off the valid ones, and values
\* that are no plain object
ArgBags ==
    {ValidBag, Bag(Obj("args"), NoFields),
     Bag(Obj("args"), [ValidFields EXCEPT !.fullNamePattern = Str("a)"),
                                          !.colorPattern = Str("[a")])} \cup
    UNION {{Bag(Obj("args"), [ValidFields EXCEPT ![name] = v]) : v \in FieldValues(name)}
              : name \in FieldNames} \cup
    {Bag(v, NoFields) : v \in {Undefined, Null, Arr, Str("x"), Num(1), [Obj("") EXCEPT !.k = "nullproto"]}}

ToolNames ==
    RegistryKeys \cup
    {"", "no_such_tool", "GET_ITEM", "toString", "constructor", "hasOwnProperty",
     "__proto__"}

\* the Location headers the server answers build_item with
BuildLocations ==
    {Undefined, Str("http://ci.example/job/foo/queue/item/42/"),
     Str("http://ci.example/queue/item/notanumber/"),
     Str("http://ci.example/queue/item/42abc/")}

-----------------------------------------------------------------------------
(* Invocations.  A call is at "crumb" while its GET of                     *)
(* /crumbIssuer/api/json is in flight, at "http" while its resource        *)
(* request is in flight, and "done" once its promise has settled.          *)

IdleCall ==
    [pc |-> "idle", tool |-> "", args |-> Bag(Undefined, NoFields),
     cfg |-> NoConfig,        \* the config handed to addCrumbHeaders
     out |-> NoConfig,        \* the config addCrumbHeaders returned
     sent |-> NoConfig,       \* the config of the POST
     crumb |-> NullCrumb,     \* what getCrumb answered
     resolved |-> FALSE,      \* getCrumb has answered
     fetched |-> FALSE,       \* the call issued the crumb GET
     crumbFailed |-> FALSE,   \* the call's crumb GET failed
     crumbError |-> "",       \* how the call's crumb GET failed
     gets |-> 0,              \* crumb GETs issued
     afterFail |-> FALSE,     \* a crumb GET had failed when the call started
     saw |-> NotCached,       \* `cached` when the call started
     sawState |-> "",         \* the issuer's state when the call started
     http |-> 0,              \* resource requests issued
     ran |-> FALSE,           \* a handler was called
     response |-> "",         \* how the resource request ended
     loc |-> Undefined,       \* the Location header of the response
     outcome |-> Pending]

\* the config the mutating operations hand to applyCrumbHeaders
RequestConfig(tool, args) ==
    IF tool = "build_item"
    THEN Config({}, Get(args, "parameters").s)
    ELSE EmptyConfig

\* the rest of a call once getCrumb has answered `crumb`: the mutating
\* operations issue their POST, a direct call of the issuer returns
AfterCrumb(call, crumb) ==
    LET r == [call EXCEPT !.resolved = TRUE, !.crumb = crumb,
                          !.out = addCrumbHeaders(call.cfg, crumb)]
    IN  IF call.tool \in MutatingTools
        THEN [r EXCEPT !.pc = "http", !.http = 1, !.sent = r.out]
        ELSE [r EXCEPT !.pc = "done", !.outcome = Return(Undefined)]

\* getCrumb whose catch rethrows
OnCrumbErrorRethrow(call) ==
    [call EXCEPT !.crumbFailed = TRUE, !.pc = "done",
                 !.outcome = ThrowMcp("InternalError",
                     "Failed to execute tool " \o call.tool
                         \o ": Request failed with status code 404")]

\* getCrumb, catch: the error is logged and the answer is null
OnCrumbError(call) == AfterCrumb([call EXCEPT !.crumbFailed = TRUE], NullCrumb)

\* getCrumb up to its await
EnterCrumb(call) ==
    IF getCached.hit
    THEN AfterCrumb(call, getCached.value)
    ELSE [call EXCEPT !.pc = "crumb", !.fetched = TRUE, !.gets = @ + 1]

Finished(call, outcome) == [call EXCEPT !.pc = "done", !.outcome = outcome]

\* handlers that all resolve the crumb before their request
RunHandlerCrumbAll(call) ==
    LET v == Validate(call.tool, call.args)
        started == [call EXCEPT !.ran = TRUE]
    IN  IF v.thrown THEN Finished(started, MapError(call.tool, v))
        ELSE EnterCrumb([started EXCEPT !.cfg = RequestConfig(call.tool, call.args)])

\* the handler of an own registry key, up to its first await
RunHandler(call) ==
    LET v == Validate(call.tool, call.args)
        started == [call EXCEPT !.ran = TRUE]
    IN  IF v.thrown THEN Finished(started, MapError(call.tool, v))
        ELSE IF call.tool \in MutatingTools
        THEN EnterCrumb([started EXCEPT !.cfg = RequestConfig(call.tool, call.args)])
        ELSE [started EXCEPT !.pc = "http", !.http = 1]

\* executeTool up to its first await
executeTool(toolName, args) ==
    LET call == [IdleCall EXCEPT !.tool = toolName, !.args = args,
                                 !.afterFail = everFailed, !.saw = cached,
                                 !.sawState = CrumbState]
        handler == registry(toolName)
    IN  IF handler = "undefined"
        THEN Finished(call, ThrowMcp("MethodNotFound", "Unknown tool: " \o toolName))
        ELSE IF ~isPlainObject(args.v)
        THEN Finished(call, ThrowMcp("InvalidParams", "Arguments must be an object"))
        ELSE IF handler = "inherited"
        THEN Finished([call EXCEPT !.ran = TRUE],
                      MapError(toolName, InheritedCall(toolName)))
        ELSE RunHandler(call)

\* slot c is the first free one (which slot a call takes is immaterial)
Free(c) ==
    /\ calls[c].pc = "idle"
    /\ \A d \in Calls : d < c => calls[d].pc # "idle"

Invoke(c, toolName, args) ==
    /\ Free(c)
    /\ calls' = [calls EXCEPT ![c] = executeTool(toolName, args)]
    /\ UNCHANGED <<cached, cacheTtlMs, now, everFailed, lastFetch, okAfterFail, location, queueId, pureVars>>

\* a direct call of the issuer: addCrumbHeaders(config) or getCrumb()
IssuerCall(c, op, config) ==
    /\ Free(c)
    /\ calls' = [calls EXCEPT ![c] =
                    EnterCrumb([IdleCall EXCEPT !.tool = op, !.cfg = config,
                                                !.afterFail = everFailed,
                                                !.saw = cached,
                                                !.sawState = CrumbState])]
    /\ UNCHANGED <<cached, cacheTtlMs, now, everFailed, lastFetch, okAfterFail, location, queueId, pureVars>>

\* the crumb GET of call c succeeds (getCrumb, try)
CrumbOk(c, crumb) ==
    /\ calls[c].pc = "crumb"
    /\ cached' = setCached(crumb)
    /\ lastFetch' = [any |-> TRUE, value |-> crumb]
    /\ okAfterFail' = (okAfterFail \/ everFailed)
    /\ calls' = [calls EXCEPT ![c] = AfterCrumb(@, crumb)]
    /\ UNCHANGED <<cacheTtlMs, now, everFailed, location, queueId, pureVars>>

\* the crumb GET of call c fails (getCrumb, catch)
CrumbFail(c, error) ==
    /\ calls[c].pc = "crumb"
    /\ cached' = setCached(NullCrumb)
    /\ lastFetch' = [any |-> TRUE, value |-> NullCrumb]
    /\ everFailed' = TRUE
    /\ calls' = [calls EXCEPT ![c] = OnCrumbError([@ EXCEPT !.crumbError = error])]
    /\ UNCHANGED <<cacheTtlMs, now, okAfterFail, location, queueId, pureVars>>

\* what each operation makes of a 2xx response
OnResponse(tool, loc) ==
    CASE tool = "build_item" -> BuildItemResult(loc)
      [] tool \in {"stop_build", "cancel_queue_item"} -> Return(Obj("{success:true}"))
      [] OTHER -> Return(Obj("data"))

\* the resource request of call c is answered 2xx
RespondOk(c, loc) ==
    /\ calls[c].pc = "http"
    /\ loc \in (IF calls[c].tool = "build_item" THEN BuildLocations ELSE {Undefined})
    /\ calls' = [calls EXCEPT ![c] =
                    Finished([@ EXCEPT !.response = "2xx", !.loc = loc],
                             MapError(@.tool, OnResponse(@.tool, loc)))]
    /\ UNCHANGED <<cached, cacheTtlMs, now, everFailed, lastFetch, okAfterFail, location, queueId, pureVars>>

\* a client that issues the resource request again after its first failure
RespondFailRetry(c, message) ==
    /\ calls[c].pc = "http"
    /\ calls' = [calls EXCEPT ![c] =
                    IF @.http < 2
                    THEN [@ EXCEPT !.http = @ + 1, !.response = message]
                    ELSE Finished([@ EXCEPT !.response = message],
                                  MapError(@.tool, Throw(message)))]
    /\ UNCHANGED <<cached, cacheTtlMs, now, everFailed, lastFetch, okAfterFail, location, queueId, pureVars>>

\* a client that forgets the cached crumb when a resource request fails
RespondFailReset(c, message) ==
    /\ calls[c].pc = "http"
    /\ cached' = NotCached
    /\ calls' = [calls EXCEPT ![c] =
                    Finished([@ EXCEPT !.response = message],
                             MapError(@.tool, Throw(message)))]
    /\ UNCHANGED <<cacheTtlMs, now, everFailed, lastFetch, okAfterFail, location, queueId, pureVars>>

\* the resource request of call c fails (JenkinsHttpClient.request rethrows)
RespondFail(c, message) ==
    /\ calls[c].pc = "http"
    /\ calls' = [calls EXCEPT ![c] =
                    Finished([@ EXCEPT !.response = message],
                             MapError(@.tool, Throw(message)))]
    /\ UNCHANGED <<cached, cacheTtlMs, now, everFailed, lastFetch, okAfterFail, location, queueId, pureVars>>

\* the caller of call c has its result; the slot is free for the next call
Settle(c) ==
    /\ calls[c].pc = "done"
    /\ calls' = [calls EXCEPT ![c] = IdleCall]
    /\ UNCHANGED <<cached, cacheTtlMs, now, everFailed, lastFetch, okAfterFail, location, queueId, pureVars>>

\* time passes
Tick ==
    /\ now < MaxTime
    /\ now' = now + 1
    /\ UNCHANGED <<cached, cacheTtlMs, calls, everFailed, lastFetch, okAfterFail, location, queueId, pureVars>>

\* a reset() that caches the answer null
ResetToNull ==
    /\ cached' = setCached(NullCrumb)
    /\ UNCHANGED <<cacheTtlMs, now, calls, everFailed, lastFetch, okAfterFail, location, queueId, pureVars>>

\* reset()
Reset ==
    /\ cached' = NotCached
    /\ UNCHANGED <<cacheTtlMs, now, calls, everFailed, lastFetch, okAfterFail, location, queueId, pureVars>>

\* buildItem reads the Location header of its response
ParseLocation ==
    /\ queueId = Pending
    /\ queueId' = BuildItemResult(location)
    /\ UNCHANGED <<cached, cacheTtlMs, now, calls, everFailed, lastFetch, okAfterFail, location, pureVars>>

-----------------------------------------------------------------------------
(* Job paths (client/paths.ts).                                            *)

\* the printable ASCII characters, from code 32 on (a tab holds the place
\* of code 96, the grave accent, which a string cannot contain)
Ascii ==
    " !\"#$%&'()*+,-./0123456789:;<=>?@ABCDEFGHIJKLMNOPQRSTUVWXYZ[\\]^_\tabcdefghijklmnopqrstuvwxyz{|}~"

HexDigits == "0123456789ABCDEF"

\* the characters encodeURIComponent leaves as they are
Unreserved ==
    "ABCDEFGHIJKLMNOPQRSTUVWXYZabcdefghijklmnopqrstuvwxyz0123456789-_.!~*'()"

RECURSIVE encodeURIComponent(_)
\* encodeURIComponent on printable ASCII
encodeURIComponent(s) ==
    IF s = "" THEN ""
    ELSE LET c == CharAt(s, 1)
             \* charCodeAt of a printable ASCII character
             code == 31 + CHOOSE i \in 1..Len(Ascii) : CharAt(Ascii, i) = c
         IN  (IF \E i \in 1..Len(Unreserved) : CharAt(Unreserved, i) = c
              THEN c
              ELSE "%" \o CharAt(HexDigits, (code \div 16) + 1)
                       \o CharAt(HexDigits, (code % 16) + 1))
                 \o encodeURIComponent(SubSeq(s, 2, Len(s)))

RECURSIVE Join(_, _)
\* Array.prototype.join(sep)
Join(parts, sep) ==
    IF Len(parts) = 0 THEN ""
    ELSE IF Len(parts) = 1 THEN parts[1]
    ELSE parts[1] \o sep \o Join(Tail(parts), sep)

\* an encodeJobName that joins the encoded segments with '/'
encodeJobNameSlash(name) ==
    LET segments == Split(name, "/")
    IN  Join([i \in 1..Len(segments) |-> encodeURIComponent(segments[i])], "/")

\* fullName.split('/').map(encodeURIComponent).join('/job/')
encodeJobName(name) ==
    LET segments == Split(name, "/")
    IN  Join([i \in 1..Len(segments) |-> encodeURIComponent(segments[i])], "/job/")

jobPath(name) == "/job/" \o encodeJobName(name)

RECURSIVE SegmentLists(_)
SegmentLists(n) ==
    IF n = 0 THEN {<<>>}
    ELSE {<<seg>> \o rest : seg \in {"", "a", "job", "a b", "50%", "%2F"},
                             rest \in SegmentLists(n - 1)}

\* the job full names of up to MaxSegments segments
JobNames ==
    {Join(segs, "/") : segs \in UNION {SegmentLists(n) : n \in 1..MaxSegments}}

\* nothing is under test in encodeJobName
PathIdle == fullName = "" /\ path = Pending
\* nothing is under test in queryItems
QueryIdle ==
    /\ items = <<>>
    /\ queryParams = QueryItemsParams(Undefined, Undefined, Undefined)
    /\ filtered = NoList
\* nothing is under test in getRunningBuilds
BuildsIdle == jobs = NoJobs /\ runningBuilds = NoList

\* encodeJobName is applied to the name under test
EncodeName ==
    /\ path = Pending
    /\ path' = Return(Str(encodeJobName(fullName)))
    /\ UNCHANGED <<cached, cacheTtlMs, now, calls, everFailed, lastFetch, okAfterFail,
                   location, queueId, fullName, items, queryParams, filtered, jobs,
                   runningBuilds, env, jenkinsConfig, axiosConfig, parameters, endpoint, advertised>>

-----------------------------------------------------------------------------
(* Configuration and transport (config loader, JenkinsHttpClient).         *)

\* process.env: each setting is a string or undefined
Env(url, user, password, token, timeout, verify) ==
    [JENKINS_URL |-> url, JENKINS_USERNAME |-> user, JENKINS_PASSWORD |-> password,
     JENKINS_API_TOKEN |-> token, JENKINS_TIMEOUT |-> timeout,
     JENKINS_VERIFY_SSL |-> verify]

NoEnv == Env(Undefined, Undefined, Undefined, Undefined, Undefined, Undefined)

\* a JenkinsConfig: url is a string, the other fields may be absent
JenkinsConfig(url, user, password, timeout, verifySSL) ==
    [url |-> url, username |-> user, password |-> password, timeout |-> timeout,
     verifySSL |-> verifySSL]

\* what produced the config under test: fromEnv tells the loader from a
\* caller that wrote the record itself
Loaded(cfg) == [done |-> TRUE, fromEnv |-> TRUE, thrown |-> FALSE, msg |-> "", cfg |-> cfg]
LoadError(msg) ==
    [done |-> TRUE, fromEnv |-> TRUE, thrown |-> TRUE, msg |-> msg, cfg |-> JenkinsConfig("", Undefined, Undefined, Undefined, Undefined)]
NotLoaded ==
    [done |-> FALSE, fromEnv |-> FALSE, thrown |-> FALSE, msg |-> "", cfg |-> JenkinsConfig("", Undefined, Undefined, Undefined, Undefined)]

\* parsePositiveInt(value, fallback, label)
parsePositiveInt(value, fallback, label) ==
    IF value = Undefined \/ value = Str("") THEN Return(Num(fallback))
    ELSE LET parsed == ParseInt(value.s)
         IN  IF parsed.nan \/ parsed.n <= 0
             THEN Throw(label \o " must be a positive integer (seconds)")
             ELSE Return(Num(parsed.n))

\* a || b
OrElse(a, b) == IF Truthy(a) THEN a ELSE b

\* loadJenkinsConfig(env)
loadJenkinsConfig(e) ==
    LET url == Trim(OrElse(e.JENKINS_URL, Str("")).s)
        timeoutSeconds == parsePositiveInt(e.JENKINS_TIMEOUT, 5, "JENKINS_TIMEOUT")
    IN  IF url = "" THEN LoadError("JENKINS_URL environment variable is required")
        ELSE IF timeoutSeconds.thrown THEN LoadError(timeoutSeconds.msg)
        ELSE Loaded(JenkinsConfig(url, e.JENKINS_USERNAME,
                                  OrElse(e.JENKINS_PASSWORD, e.JENKINS_API_TOKEN),
                                  timeoutSeconds.val,
                                  Bool(e.JENKINS_VERIFY_SSL # Str("false"))))

\* the axios config of a client: timeout in ms, the TLS policy of its
\* httpsAgent, and whether basic auth is set
AxiosConfig(baseURL, timeout, rejectUnauthorized, auth) ==
    [built |-> TRUE, baseURL |-> baseURL, timeout |-> timeout,
     rejectUnauthorized |-> rejectUnauthorized, auth |-> auth]

NotBuilt ==
    [built |-> FALSE, baseURL |-> "", timeout |-> 0, rejectUnauthorized |-> FALSE,
     auth |-> FALSE]

\* a constructor that verifies peers only when verifySSL is set to true
JenkinsHttpClientOptIn(cfg) ==
    AxiosConfig(cfg.url, OrElse(cfg.timeout, Num(5)).n * 1000,
                cfg.verifySSL = Bool(TRUE),
                Truthy(cfg.username) /\ Truthy(cfg.password))

\* new JenkinsHttpClient(config), without options
JenkinsHttpClient(cfg) ==
    AxiosConfig(cfg.url, OrElse(cfg.timeout, Num(5)).n * 1000,
                IF cfg.verifySSL = Bool(FALSE) THEN FALSE
                ELSE cfg.verifySSL # Bool(FALSE),
                Truthy(cfg.username) /\ Truthy(cfg.password))

\* the environments the server is started in
Envs ==
    {Env(url, Undefined, Undefined, Undefined, timeout, verify) :
        url \in {Undefined, Str("  "), Str(" http://ci.example ")},
        timeout \in {Undefined, Str(""), Str("5"), Str("30"), Str("0"), Str("-3"), Str("abc"),
                    Str("1.5"), Str("5abc")},
        verify \in {Undefined, Str(""), Str("false"), Str("true"), Str("FALSE"),
                   Str("0"), Str("no")}}
    \cup {Env(Str("http://ci.example"), Str("ci"), password, token, Undefined, Undefined) :
            password \in {Undefined, Str("pw")}, token \in {Undefined, Str("tok")}}

\* the advertised tools without stop_build
toolsWithoutStop ==
    <<"get_all_items", "get_item", "get_item_config", "query_items", "build_item",
      "get_all_nodes", "get_node", "get_node_config", "get_all_queue_items",
      "get_queue_item", "cancel_queue_item", "get_build", "get_build_console_output",
      "get_running_builds">>

\* tools: the names of the tool definitions, in their order
tools ==
    <<"get_all_items", "get_item", "get_item_config", "query_items", "build_item",
      "get_all_nodes", "get_node", "get_node_config", "get_all_queue_items",
      "get_queue_item", "cancel_queue_item", "get_build", "get_build_console_output",
      "get_running_builds", "stop_build">>

\* the handler of tools/list: return { tools }
ListTools ==
    /\ advertised = <<>>
    /\ advertised' = tools
    /\ UNCHANGED <<cached, cacheTtlMs, now, calls, everFailed, lastFetch, okAfterFail,
                   location, queueId, fullName, path, items, queryParams, filtered, jobs,
                   runningBuilds, env, jenkinsConfig, axiosConfig, parameters, endpoint>>

\* nothing is under test in the configuration
ConfigIdle == env = NoEnv /\ jenkinsConfig = NotLoaded /\ axiosConfig = NotBuilt
\* nothing is under test in buildTriggerPath
TriggerIdle == parameters = Undefined /\ endpoint = ""

\* loadJenkinsConfig reads the environment under test
LoadConfig ==
    /\ ~jenkinsConfig.done /\ env # NoEnv
    /\ jenkinsConfig' = loadJenkinsConfig(env)
    /\ UNCHANGED <<cached, cacheTtlMs, now, calls, everFailed, lastFetch, okAfterFail,
                   location, queueId, fullName, path, items, queryParams, filtered, jobs,
                   runningBuilds, env, axiosConfig, parameters, endpoint, advertised>>

\* a caller writes the config record itself
WriteConfig(cfg) ==
    /\ ~jenkinsConfig.done /\ env = NoEnv
    /\ jenkinsConfig' = [Loaded(cfg) EXCEPT !.fromEnv = FALSE]
    /\ UNCHANGED <<cached, cacheTtlMs, now, calls, everFailed, lastFetch, okAfterFail,
                   location, queueId, fullName, path, items, queryParams, filtered, jobs,
                   runningBuilds, env, axiosConfig, parameters, endpoint, advertised>>

\* new JenkinsClient(config): the transport is constructed
CreateClient ==
    /\ jenkinsConfig.done /\ ~jenkinsConfig.thrown /\ ~axiosConfig.built
    /\ axiosConfig' = JenkinsHttpClient(jenkinsConfig.cfg)
    /\ UNCHANGED <<cached, cacheTtlMs, now, calls, everFailed, lastFetch, okAfterFail,
                   location, queueId, fullName, path, items, queryParams, filtered, jobs,
                   runningBuilds, env, jenkinsConfig, parameters, endpoint, advertised>>

\* buildTriggerPath(fullName, withParameters)
buildTriggerPath(name, withParameters) ==
    IF withParameters THEN jobPath(name) \o "/buildWithParameters"
    ELSE jobPath(name) \o "/build"

\* a buildItem that asks for buildWithParameters only when the map has entries
TriggerEndpointNonEmpty(name, params) ==
    buildTriggerPath(name, Truthy(params) /\ params # Obj("{}"))

\* buildItem: the endpoint it posts to, buildTriggerPath(fullName, Boolean(parameters))
TriggerEndpoint(name, params) == buildTriggerPath(name, Truthy(params))

\* buildItem computes the endpoint of its POST
BuildEndpoint ==
    /\ endpoint = ""
    /\ endpoint' = TriggerEndpoint(fullName, parameters)
    /\ UNCHANGED <<cached, cacheTtlMs, now, calls, everFailed, lastFetch, okAfterFail,
                   location, queueId, fullName, path, items, queryParams, filtered, jobs,
                   runningBuilds, env, jenkinsConfig, axiosConfig, parameters, advertised>>

-----------------------------------------------------------------------------
(* Specifications.                                                         *)

InitClient ==
    /\ cached = NotCached
    /\ now = 0
    /\ calls = [c \in Calls |-> IdleCall]
    /\ everFailed = FALSE
    /\ lastFetch = [any |-> FALSE, value |-> NullCrumb]
    /\ okAfterFail = FALSE
    /\ location = Undefined
    /\ queueId = Pending
    /\ PathIdle /\ QueryIdle /\ BuildsIdle /\ ConfigIdle /\ TriggerIdle /\ advertised = <<>>

\* a JenkinsClient: its issuer has no TTL and nothing calls reset()
Init == InitClient /\ cacheTtlMs = 0

\* concurrent callers of one JenkinsClient
Next ==
    \E c \in Calls :
        \/ \E toolName \in MutatingTools \cup {"get_build"},
              args \in {ValidBag,
                        Bag(Obj("args"), [ValidFields EXCEPT !.parameters = Obj("{N:'1'}")])} :
                Invoke(c, toolName, args)
        \/ \E crumb \in Crumbs : CrumbOk(c, crumb)
        \/ \E error \in CrumbErrors : CrumbFail(c, error)
        \/ \E loc \in BuildLocations : RespondOk(c, loc)
        \/ \E message \in HttpErrors : RespondFail(c, message)
        \/ Settle(c)

Spec == Init /\ [][Next]_vars

\* one caller of tools/call (executeTool), any operation name, any argument
\* bag, and of tools/list
NextDispatch ==
    \/ \E toolName \in ToolNames, args \in ArgBags : Invoke(1, toolName, args)
    \/ \E crumb \in Crumbs : CrumbOk(1, crumb)
    \/ \E error \in CrumbErrors : CrumbFail(1, error)
    \/ \E loc \in BuildLocations : RespondOk(1, loc)
    \/ \E message \in HttpErrors : RespondFail(1, message)
    \/ Settle(1)
    \/ ListTools

SpecDispatch == Init /\ [][NextDispatch]_vars

\* concurrent callers of one JenkinsClient, every operation of the registry
NextReads ==
    \E c \in Calls :
        \/ \E toolName \in RegistryKeys : Invoke(c, toolName, ValidBag)
        \/ CrumbOk(c, Crumb("t1", "Jenkins-Crumb"))
        \/ CrumbFail(c, "404")
        \/ RespondOk(c, Undefined)
        \/ RespondFail(c, "timeout of 5000ms exceeded")
        \/ Settle(c)

SpecReads == Init /\ [][NextReads]_vars

\* a crumb issuer in any configuration, called directly
InitIssuer == InitClient /\ cacheTtlMs \in 0..MaxTtl

NextIssuer ==
    \/ \E c \in Calls :
        \/ \E config \in {EmptyConfig, Config({<<"Accept", "text/plain">>}, "{N:'1'}"),
                           Config({<<"Jenkins-Crumb", "stale">>, <<"Accept", "text/plain">>},
                                  "")} :
                IssuerCall(c, "addCrumbHeaders", config)
        \/ IssuerCall(c, "getCrumb", EmptyConfig)
        \/ \E crumb \in Crumbs : CrumbOk(c, crumb)
        \/ \E error \in CrumbErrors : CrumbFail(c, error)
        \/ Settle(c)
    \/ Tick
    \/ Reset

SpecIssuer == InitIssuer /\ [][NextIssuer]_vars

\* buildItem on every Location header
InitLocations ==
    /\ cached = NotCached
    /\ cacheTtlMs = 0
    /\ now = 0
    /\ calls = [c \in Calls |-> IdleCall]
    /\ everFailed = FALSE
    /\ lastFetch = [any |-> FALSE, value |-> NullCrumb]
    /\ okAfterFail = FALSE
    /\ location \in Locations
    /\ queueId = Pending
    /\ PathIdle /\ QueryIdle /\ BuildsIdle /\ ConfigIdle /\ TriggerIdle /\ advertised = <<>>

NextParse == ParseLocation

SpecParse == InitLocations /\ [][NextParse]_vars

\* encodeJobName on every job full name
InitPaths ==
    /\ cached = NotCached
    /\ cacheTtlMs = 0
    /\ now = 0
    /\ calls = [c \in Calls |-> IdleCall]
    /\ everFailed = FALSE
    /\ lastFetch = [any |-> FALSE, value |-> NullCrumb]
    /\ okAfterFail = FALSE
    /\ location = Undefined
    /\ queueId = Pending
    /\ fullName \in JobNames
    /\ path = Pending
    /\ QueryIdle /\ BuildsIdle /\ ConfigIdle /\ TriggerIdle /\ advertised = <<>>

NextPaths == EncodeName

SpecPaths == InitPaths /\ [][NextPaths]_vars

\* queryItems on every item list and every combination of patterns
InitQuery ==
    /\ cached = NotCached
    /\ cacheTtlMs = 0
    /\ now = 0
    /\ calls = [c \in Calls |-> IdleCall]
    /\ everFailed = FALSE
    /\ lastFetch = [any |-> FALSE, value |-> NullCrumb]
    /\ okAfterFail = FALSE
    /\ location = Undefined
    /\ queueId = Pending
    /\ items \in UNION {ItemLists(n) : n \in 0..MaxItems}
    /\ queryParams \in {QueryItemsParams(class, name, color) :
                            class \in {Undefined, Str("Job$"), Str("^F")},
                            name \in {Undefined, Str(""), Str("^infra"), Str("p")},
                            color \in {Undefined, Str("red"), Str("red|blue"), Str(".*"), Str("(")}}
    /\ filtered = NoList
    /\ PathIdle /\ BuildsIdle /\ ConfigIdle /\ TriggerIdle /\ advertised = <<>>

NextQuery == QueryItems

SpecQuery == InitQuery /\ [][NextQuery]_vars

\* getRunningBuilds on every response
InitBuilds ==
    /\ cached = NotCached
    /\ cacheTtlMs = 0
    /\ now = 0
    /\ calls = [c \in Calls |-> IdleCall]
    /\ everFailed = FALSE
    /\ lastFetch = [any |-> FALSE, value |-> NullCrumb]
    /\ okAfterFail = FALSE
    /\ location = Undefined
    /\ queueId = Pending
    /\ jobs \in {NoJobs} \cup {JobsArray(list) :
                                  list \in UNION {JobLists(n) : n \in 0..MaxJobs}}
    /\ runningBuilds = NoList
    /\ PathIdle /\ QueryIdle /\ ConfigIdle /\ TriggerIdle /\ advertised = <<>>

NextBuilds == GetRunningBuilds

SpecBuilds == InitBuilds /\ [][NextBuilds]_vars

\* the configuration is loaded from every environment, or written by the
\* caller, and a client is constructed from it
InitConfig ==
    /\ cached = NotCached
    /\ cacheTtlMs = 0
    /\ now = 0
    /\ calls = [c \in Calls |-> IdleCall]
    /\ everFailed = FALSE
    /\ lastFetch = [any |-> FALSE, value |-> NullCrumb]
    /\ okAfterFail = FALSE
    /\ location = Undefined
    /\ queueId = Pending
    /\ env \in Envs \cup {NoEnv}
    /\ jenkinsConfig = NotLoaded
    /\ axiosConfig = NotBuilt
    /\ PathIdle /\ QueryIdle /\ BuildsIdle /\ TriggerIdle /\ advertised = <<>>

NextConfig ==
    \/ LoadConfig
    \/ \E timeout \in {Undefined, Num(0), Num(20)},
          verifySSL \in {Undefined, Bool(TRUE), Bool(FALSE)} :
            WriteConfig(JenkinsConfig("http://ci.example", Undefined, Undefined,
                                      timeout, verifySSL))
    \/ CreateClient

SpecConfig == InitConfig /\ [][NextConfig]_vars

\* buildItem's endpoint for every job full name and parameters argument
InitTrigger ==
    /\ cached = NotCached
    /\ cacheTtlMs = 0
    /\ now = 0
    /\ calls = [c \in Calls |-> IdleCall]
    /\ everFailed = FALSE
    /\ lastFetch = [any |-> FALSE, value |-> NullCrumb]
    /\ okAfterFail = FALSE
    /\ location = Undefined
    /\ queueId = Pending
    /\ fullName \in JobNames
    /\ path = Pending
    /\ parameters \in {Undefined, Obj("{}"), Obj("{N:'1'}")}
    /\ endpoint = ""
    /\ QueryIdle /\ BuildsIdle /\ ConfigIdle /\ advertised = <<>>

NextTrigger == BuildEndpoint

SpecTrigger == InitTrigger /\ [][NextTrigger]_vars

-----------------------------------------------------------------------------
(* Claims about the crumb issuer.                                          *)

CrumbFields == {k.field : k \in Crumbs}

\* C1 as stated: in a JenkinsClient, a call that starts after a crumb fetch
\* has failed issues no crumb GET and gets its config back unchanged.
C1_AfterFailureUnchanged ==
    \A c \in Calls :
        calls[c].afterFail =>
            /\ ~calls[c].fetched
            /\ calls[c].resolved => calls[c].out = calls[c].cfg

\* C1 amended: in a JenkinsClient, a call that starts after a crumb fetch has
\* failed issues no crumb GET; it gets its config back unchanged, or, once a
\* fetch that was in flight at the failure has succeeded, with a crumb header
\* added.
C1_NoFetchAfterFailure ==
    \A c \in Calls :
        calls[c].afterFail =>
            /\ ~calls[c].fetched
            /\ calls[c].resolved =>
                \/ calls[c].out = calls[c].cfg
                \/ /\ okAfterFail
                   /\ \E k \in Crumbs :
                        /\ calls[c].out.params = calls[c].cfg.params
                        /\ calls[c].out.headers =
                              calls[c].cfg.headers \cup {<<k.field, k.crumb>>}

C1_Witness ==
    \E c \in Calls :
        /\ calls[c].afterFail /\ calls[c].resolved /\ ~okAfterFail
        /\ calls[c].tool = "stop_build" /\ calls[c].pc = "http"
        /\ calls[c].out = calls[c].cfg

\* C2 as stated: in any configuration, a call that starts while the cache
\* holds the 'not applicable' sentinel issues no crumb GET.
C2_SentinelNeverRefetched ==
    \A c \in Calls :
        (calls[c].saw.set /\ calls[c].saw.value.null) => ~calls[c].fetched

\* the config `out` is `config` plus the header field |-> token, nothing lost
HeaderAdded(config, out, field, token) ==
    /\ out.params = config.params
    /\ <<field, token>> \in out.headers
    /\ \A h \in config.headers : h[1] # field => h \in out.headers
    /\ \A h \in out.headers : h = <<field, token>> \/ h \in config.headers

\* C3: addCrumbHeaders answers by the issuer's state: RESOLVED, the config
\* plus the token under the server's field name; UNAVAILABLE, the config
\* unchanged; UNRESOLVED, it fetches and answers by what the fetch produced.
C3_AddCrumbHeadersByState ==
    \A c \in Calls :
        LET k == calls[c]
        IN  k.tool = "addCrumbHeaders" =>
              /\ k.fetched <=> k.sawState = "UNRESOLVED"
              /\ k.pc = "crumb" => ~k.resolved
              /\ k.resolved =>
                    CASE k.sawState = "RESOLVED" ->
                            HeaderAdded(k.cfg, k.out, k.saw.value.field, k.saw.value.crumb)
                      [] k.sawState = "UNAVAILABLE" -> k.out = k.cfg
                      [] OTHER ->
                            IF k.crumbFailed THEN k.out = k.cfg
                            ELSE /\ k.crumb \in Crumbs
                                 /\ HeaderAdded(k.cfg, k.out, k.crumb.field, k.crumb.crumb)

C3_Witness ==
    \E c \in Calls :
        /\ calls[c].tool = "addCrumbHeaders" /\ calls[c].resolved
        /\ calls[c].sawState = "RESOLVED"
        /\ calls[c].cfg.headers = {<<"Jenkins-Crumb", "stale">>, <<"Accept", "text/plain">>}
        /\ <<"Jenkins-Crumb", "t1">> \in calls[c].out.headers

NoFetchInFlight == \A c \in Calls : calls[c].pc # "crumb"

\* C4: once the crumb fetches of concurrent first calls have all completed,
\* the cache holds the outcome of the one that completed last, and a call
\* that starts with the cache filled issues no crumb GET.
C4_LastWriteWins ==
    /\ (NoFetchInFlight /\ lastFetch.any) =>
            cached.set /\ cached.value = lastFetch.value
    /\ \A c \in Calls : calls[c].saw.set => ~calls[c].fetched

C4_Witness ==
    /\ NoFetchInFlight
    /\ \E c1, c2 \in Calls :
        /\ calls[c1].fetched /\ calls[c1].resolved /\ calls[c1].crumbFailed
        /\ calls[c2].fetched /\ calls[c2].resolved /\ ~calls[c2].crumbFailed
        /\ cached.value = calls[c2].crumb

\* C5: a mutating operation whose crumb GET failed still sends its POST,
\* without a crumb header, and its result is decided by the POST alone.
C5_CrumbFailureDoesNotFail ==
    /\ \A c \in Calls :
        LET k == calls[c]
        IN  (k.crumbFailed /\ k.tool \in MutatingTools) =>
              /\ k.pc \in {"http", "done"} /\ k.http = 1
              /\ k.sent = k.cfg
              /\ \A h \in k.sent.headers : h[1] \notin CrumbFields
              /\ (k.pc = "done" /\ k.response = "2xx" /\ k.tool # "build_item") =>
                    k.outcome = Return(Obj("{success:true}"))
              /\ (k.pc = "done" /\ k.response # "2xx") => k.outcome.thrown
    /\ \A c1, c2 \in Calls :
        (/\ calls[c1].pc = "done" /\ calls[c2].pc = "done"
         /\ calls[c1].tool = calls[c2].tool /\ calls[c1].tool \in MutatingTools
         /\ calls[c1].args = calls[c2].args
         /\ calls[c1].response = calls[c2].response /\ calls[c1].loc = calls[c2].loc)
            => calls[c1].outcome = calls[c2].outcome

C5_Witness ==
    \E c \in Calls :
        /\ calls[c].tool = "cancel_queue_item" /\ calls[c].crumbFailed
        /\ calls[c].pc = "done" /\ calls[c].outcome = Return(Obj("{success:true}"))

-----------------------------------------------------------------------------
(* Claims about the queue id of buildItem.                                 *)

AllDigits(s) == s # "" /\ \A i \in 1..Len(s) : IsDigit(CharAt(s, i))
NoSlash(s) == \A i \in 1..Len(s) : CharAt(s, i) # "/"

\* s[i+1..j-1] is the second-to-last '/'-separated segment of s
IsIdSegment(s, i, j) ==
    /\ i < j /\ CharAt(s, j) = "/" /\ NoSlash(SubSeq(s, j + 1, Len(s)))
    /\ i = 0 \/ CharAt(s, i) = "/"
    /\ NoSlash(SubSeq(s, i + 1, j - 1))

\* C6: when the second-to-last segment of the Location header is a decimal
\* non-negative integer, buildItem returns that integer; .../queue/item/42/
\* yields 42.
C6_QueueIdFromLocation ==
    (queueId # Pending /\ location.k = "string") =>
        /\ \A i \in 0..Len(location.s), j \in 1..Len(location.s) :
              (/\ IsIdSegment(location.s, i, j)
               /\ AllDigits(SubSeq(location.s, i + 1, j - 1)))
                 => queueId = Return(Num(DecimalValue(SubSeq(location.s, i + 1, j - 1))))
        /\ location.s = "http://ci.example/job/foo/queue/item/42/"
              => queueId = Return(Num(42))
        /\ location.s = "/40/" => queueId = Return(Num(40))

C6_Witness ==
    /\ location = Str("http://ci.example/job/foo/queue/item/42/")
    /\ queueId = Return(Num(42))

\* C7 as stated: buildItem raises an error whenever the Location header is
\* missing or its second-to-last segment is not wholly a decimal
\* non-negative integer.
C7_BadSegmentFails ==
    (/\ queueId # Pending
     /\ \/ location.k = "undefined"
        \/ ~\E i \in 0..Len(location.s), j \in 1..Len(location.s) :
               /\ IsIdSegment(location.s, i, j)
               /\ AllDigits(SubSeq(location.s, i + 1, j - 1)))
        => queueId.thrown

-----------------------------------------------------------------------------
(* Claims about executeTool.                                               *)

NoRequest(k) == k.http = 0 /\ ~k.fetched

\* C8 as stated: for every operation name outside the 15 of the table,
\* executeTool fails with MethodNotFound, calls no handler and issues no
\* HTTP request.
C8_UnknownToolNotFound ==
    \A c \in Calls :
        (calls[c].pc # "idle" /\ calls[c].tool \notin RegistryKeys) =>
            /\ calls[c].pc = "done"
            /\ calls[c].outcome.mcp /\ calls[c].outcome.code = "MethodNotFound"
            /\ ~calls[c].ran /\ NoRequest(calls[c])

\* C9: for a known operation name and an argument bag that is null, an
\* array, a string or a number, executeTool fails with InvalidParams, calls
\* no handler and issues no HTTP request.
C9_MalformedBagInvalidParams ==
    \A c \in Calls :
        (/\ calls[c].pc # "idle" /\ calls[c].tool \in RegistryKeys
         /\ calls[c].args.v.k \in {"null", "array", "string", "number"}) =>
            /\ calls[c].pc = "done"
            /\ calls[c].outcome.mcp /\ calls[c].outcome.code = "InvalidParams"
            /\ ~calls[c].ran /\ NoRequest(calls[c])

C9_Witness ==
    \E c \in Calls :
        /\ calls[c].tool = "get_all_items" /\ calls[c].args.v = Arr
        /\ calls[c].pc = "done" /\ calls[c].outcome.code = "InvalidParams"

\* the handler of call k threw before it issued any request
ValidationFailed(k) ==
    /\ k.pc = "done" /\ k.tool \in RegistryKeys /\ k.ran
    /\ NoRequest(k) /\ ~k.resolved /\ k.outcome.thrown

\* C10 as stated: every validation failure inside a handler reaches the
\* caller as InvalidParams with a message that names the field.
C10_ValidationIsInvalidParams ==
    \A c \in Calls :
        ValidationFailed(calls[c]) =>
            /\ calls[c].outcome.mcp /\ calls[c].outcome.code = "InvalidParams"
            /\ \E f \in FieldNames :
                  SubSeq(calls[c].outcome.msg, 1, Len(f)) = f

\* the resource request of call k was issued and the call ended in an error
ClientFailed(k) ==
    /\ k.pc = "done" /\ k.tool \in RegistryKeys
    /\ k.response # "" /\ k.outcome.thrown

\* C11 as stated: every failure of the client that is not a validation
\* failure (network error, non-2xx status, missing or unparseable Location)
\* reaches the caller of executeTool as InternalError carrying the operation
\* name and the underlying message.
C11_ClientFailureIsInternal ==
    \A c \in Calls :
        ClientFailed(calls[c]) =>
            /\ calls[c].outcome.mcp /\ calls[c].outcome.code = "InternalError"
            /\ LET prefix == "Failed to execute tool " \o calls[c].tool \o ": "
               IN  SubSeq(calls[c].outcome.msg, 1, Len(prefix)) = prefix

TypedErrors == {"MethodNotFound", "InvalidParams", "InternalError"}

\* C12: for every operation name, argument bag and behaviour of the server,
\* a call of executeTool that has ended either returned a value or raised a
\* McpError with code MethodNotFound, InvalidParams or InternalError.
C12_OutcomeIsTyped ==
    \A c \in Calls :
        calls[c].pc = "done" =>
            \/ ~calls[c].outcome.thrown
            \/ calls[c].outcome.mcp /\ calls[c].outcome.code \in TypedErrors

C12_Witness ==
    \E c \in Calls :
        /\ calls[c].pc = "done" /\ calls[c].tool = "hasOwnProperty"
        /\ calls[c].outcome.thrown /\ calls[c].outcome.code = "InternalError"

\* the name-like argument of call k is empty, white space or not a string
OnlySpaces(s) == \A i \in 1..Len(s) : IsSpace(CharAt(s, i))
BadName(v) == v.k # "string" \/ OnlySpaces(v.s)
\* buildNumber is 0, negative, not an integer or not a number
BadBuildNumber(v) == v.k # "number" \/ v.s # "int" \/ v.n <= 0
\* queueId is negative, not an integer or not a number
BadQueueId(v) == v.k # "number" \/ v.s # "int" \/ v.n < 0

\* call k reached a handler with an argument that must fail validation
HasBadArgument(k) ==
    /\ k.tool \in RegistryKeys /\ k.ran
    /\ \/ /\ k.tool \in ItemReadTools \cup BuildTools \cup {"build_item"}
          /\ BadName(Get(k.args, "fullName"))
       \/ k.tool \in NodeReadTools /\ BadName(Get(k.args, "nodeName"))
       \/ k.tool \in BuildTools /\ BadBuildNumber(Get(k.args, "buildNumber"))
       \/ k.tool \in QueueTools /\ BadQueueId(Get(k.args, "queueId"))

\* C13: when argument validation fails, the call ends in an error without
\* any HTTP request, not even the crumb GET, and the crumb cache is as it
\* was when the call started.
C13_ValidationBeforeNetwork ==
    \A c \in Calls :
        (calls[c].pc # "idle" /\ HasBadArgument(calls[c])) =>
            /\ calls[c].pc = "done" /\ calls[c].outcome.thrown
            /\ NoRequest(calls[c]) /\ ~calls[c].resolved
            /\ cached = calls[c].saw

C13_Witness ==
    \E c \in Calls :
        /\ calls[c].pc = "done" /\ calls[c].tool = "stop_build"
        /\ Get(calls[c].args, "buildNumber") = Num(0)
        /\ calls[c].outcome.thrown /\ NoRequest(calls[c])
        /\ cached.set /\ cached = calls[c].saw

-----------------------------------------------------------------------------
(* Claims about the paths.                                                 *)

RECURSIVE SplitOn(_, _)
\* the pieces of s between the occurrences of sep, found from the left
SplitOn(s, sep) ==
    LET n == Len(sep)
        At(i) == SubSeq(s, i, i + n - 1) = sep
    IN  IF \A i \in 1..(Len(s) - n + 1) : ~At(i)
        THEN <<s>>
        ELSE LET i == CHOOSE j \in 1..(Len(s) - n + 1) :
                          At(j) /\ \A k \in 1..(j - 1) : ~At(k)
             IN  <<SubSeq(s, 1, i - 1)>> \o SplitOn(SubSeq(s, i + n, Len(s)), sep)

IsHexDigit(c) == \E i \in 1..Len(HexDigits) : CharAt(HexDigits, i) = c
HexVal(c) == (CHOOSE i \in 1..Len(HexDigits) : CharAt(HexDigits, i) = c) - 1

\* every '%' of s starts the escape of a printable ASCII character
WellEscaped(s) ==
    \A i \in 1..Len(s) :
        CharAt(s, i) = "%" =>
            /\ i + 2 <= Len(s)
            /\ IsHexDigit(CharAt(s, i + 1)) /\ IsHexDigit(CharAt(s, i + 2))
            /\ 16 * HexVal(CharAt(s, i + 1)) + HexVal(CharAt(s, i + 2)) \in 32..126

RECURSIVE PercentDecode(_)
\* percent-decoding of a well-escaped string
PercentDecode(s) ==
    IF s = "" THEN ""
    ELSE IF CharAt(s, 1) = "%"
    THEN CharAt(Ascii, 16 * HexVal(CharAt(s, 2)) + HexVal(CharAt(s, 3)) - 31)
             \o PercentDecode(SubSeq(s, 4, Len(s)))
    ELSE CharAt(s, 1) \o PercentDecode(SubSeq(s, 2, Len(s)))

\* C14: splitting the path encodeJobName produced on '/job/' and
\* percent-decoding each piece gives back exactly the '/'-separated
\* segments of the full name, so the full name is recovered from its path.
C14_EncodeJobNameRoundTrips ==
    path # Pending =>
        LET pieces == SplitOn(path.val.s, "/job/")
            segments == Split(fullName, "/")
        IN  /\ Len(pieces) = Len(segments)
            /\ \A i \in 1..Len(pieces) :
                  WellEscaped(pieces[i]) /\ PercentDecode(pieces[i]) = segments[i]
            /\ Join([i \in 1..Len(pieces) |-> PercentDecode(pieces[i])], "/") = fullName

C14_Witness ==
    /\ fullName = "a b/job/%2F"
    /\ path = Return(Str("a%20b/job/job/job/%252F"))

-----------------------------------------------------------------------------
(* Claims about the query filter.                                          *)

\* a pattern is given: a non-empty string
Given(pattern) == pattern.k = "string" /\ pattern.s # ""

\* the item has a color
HasColor(item) == item.color.k = "string"

\* the item satisfies the given filters p
Satisfies(p, item) ==
    /\ Given(p.classPattern) => RegExpTest(p.classPattern.s, item.class)
    /\ Given(p.fullNamePattern) => RegExpTest(p.fullNamePattern.s, item.fullName)
    /\ Given(p.colorPattern) =>
          HasColor(item) /\ RegExpTest(p.colorPattern.s, item.color.s)

SatisfiesQuery(item) == Satisfies(queryParams, item)

AllCompile(p) ==
    \A pattern \in {p.classPattern, p.fullNamePattern, p.colorPattern} :
        Given(pattern) => SyntaxErrorOf(pattern.s) = ""

\* C15: queryItems returns exactly the items of the list, in their order,
\* that satisfy all given filters; an item without a color is excluded by a
\* color filter and included without one; without patterns every item is
\* returned.
C15_QueryItemsFilters ==
    (filtered.done /\ AllCompile(queryParams)) =>
        /\ ~filtered.thrown
        /\ filtered.list = SelectSeq(items, SatisfiesQuery)
        /\ \A i \in 1..Len(items) :
              ~HasColor(items[i]) =>
                  IF Given(queryParams.colorPattern)
                  THEN \A j \in 1..Len(filtered.list) : filtered.list[j] # items[i]
                  ELSE (/\ ~Given(queryParams.classPattern)
                        /\ ~Given(queryParams.fullNamePattern))
                           => \E j \in 1..Len(filtered.list) : filtered.list[j] = items[i]
        /\ (/\ ~Given(queryParams.classPattern) /\ ~Given(queryParams.fullNamePattern)
            /\ ~Given(queryParams.colorPattern)) => filtered.list = items

C15_Witness ==
    /\ items = <<JenkinsItem("Folder", "infra", Undefined),
                 JenkinsItem("FreeStyleProject", "app", Str("blue")),
                 JenkinsItem("WorkflowJob", "infra/deploy", Str("red"))>>
    /\ queryParams = QueryItemsParams(Undefined, Undefined, Str("red"))
    /\ filtered = Listed(<<JenkinsItem("WorkflowJob", "infra/deploy", Str("red"))>>)

\* the list queryItems returns for patterns p that compile
Query(p, list) == queryItems(p, list).list

OnlyClass(p) == QueryItemsParams(p.classPattern, Undefined, Undefined)
OnlyFullName(p) == QueryItemsParams(Undefined, p.fullNamePattern, Undefined)
OnlyColor(p) == QueryItemsParams(Undefined, Undefined, p.colorPattern)

\* C16: filtering by the three fields together gives what the three
\* single-field filters give one after another, in each of the six orders,
\* and filtering the result again with the same patterns changes nothing.
C16_FilterCommutesAndIsIdempotent ==
    (filtered.done /\ AllCompile(queryParams)) =>
        LET singles == {OnlyClass(queryParams), OnlyFullName(queryParams),
                        OnlyColor(queryParams)}
        IN  /\ \A first \in singles, second \in singles, third \in singles :
                  {first, second, third} = singles =>
                      Query(third, Query(second, Query(first, items))) = filtered.list
            /\ Query(queryParams, filtered.list) = filtered.list

C16_Witness ==
    /\ filtered.done /\ ~filtered.thrown
    /\ Given(queryParams.classPattern) /\ Given(queryParams.fullNamePattern)
    /\ Given(queryParams.colorPattern)
    /\ Len(items) = 3 /\ Len(filtered.list) = 1
    /\ Len(Query(OnlyClass(queryParams), items)) = 2
    /\ Len(Query(OnlyColor(queryParams), items)) = 2

\* call k supplied a pattern that does not compile
FailingPatterns(k) ==
    {f \in PatternFields :
        /\ Get(k.args, f).k = "string" /\ Get(k.args, f).s # ""
        /\ SyntaxErrorOf(Get(k.args, f).s) # ""}

-----------------------------------------------------------------------------
(* Claims about the running builds.                                        *)

\* the job has a last build, and it is building
LastBuildRuns(job) == job.lastBuild.k = "object" /\ job.lastBuild.building = Bool(TRUE)

\* C18: getRunningBuilds returns, in job order, one entry for each job whose
\* last build has building = true and none for any other job; the entry is
\* that last build with fullDisplayName '<job full name> #<build number>'.
\* A job without a last build, or whose running build is not its last one,
\* has no entry.
C18_RunningBuildsAreLastBuilds ==
    runningBuilds.done =>
        LET running == SelectSeq(jobs.list, LastBuildRuns)
            entries == runningBuilds.list
        IN  /\ ~runningBuilds.thrown
            /\ Len(entries) = Len(running)
            /\ \A i \in 1..Len(entries) :
                  /\ entries[i].number = running[i].lastBuild.number
                  /\ entries[i].building = running[i].lastBuild.building
                  /\ entries[i].fullDisplayName =
                        running[i].fullName \o " #"
                            \o NumberToString(running[i].lastBuild.number)

C18_Witness ==
    /\ jobs = JobsArray(<<Job("app", JenkinsBuild(42, Bool(FALSE), ""), TRUE),
                          Job("infra/deploy", JenkinsBuild(7, Bool(TRUE), ""), FALSE)>>)
    /\ runningBuilds = Listed(<<JenkinsBuild(7, Bool(TRUE), "infra/deploy #7")>>)

-----------------------------------------------------------------------------
(* Claims about timeouts and retries.                                      *)

TimeoutMessage == "timeout of 5000ms exceeded"

\* in this step the resource request of call c timed out
ResourceTimedOut(c) ==
    calls[c].pc = "http" /\ calls'[c].pc = "done" /\ calls'[c].response = TimeoutMessage

\* in this step the crumb GET of call c timed out
CrumbTimedOut(c) ==
    calls[c].pc = "crumb" /\ calls'[c].pc # "crumb" /\ calls'[c].crumbError = "timeout"

OthersUntouched(c) == \A d \in Calls : d # c => calls'[d] = calls[d]

\* C19 as stated: every request that times out, the crumb fetch included,
\* surfaces as an error to the caller of its operation, leaves the crumb
\* cache as it was and changes no other call.
C19_TimeoutSurfacesCacheUntouched ==
    [][\A c \in Calls :
          (ResourceTimedOut(c) \/ CrumbTimedOut(c)) =>
              /\ calls'[c].pc = "done" /\ calls'[c].outcome.thrown
              /\ cached' = cached
              /\ OthersUntouched(c)]_vars

\* C19, amended: a resource request that times out surfaces as
\* InternalError to the caller of its operation, leaves the crumb cache as
\* it was and changes no other call; a crumb GET that times out is not an
\* error of the operation: the cache becomes 'not applicable', the
\* operation goes on to its POST without a crumb header, and no other call
\* changes.
C19_ResourceTimeoutSurfaces ==
    [][\A c \in Calls :
          /\ ResourceTimedOut(c) =>
                /\ calls'[c].outcome =
                      ThrowMcp("InternalError",
                               "Failed to execute tool " \o calls[c].tool \o ": "
                                   \o TimeoutMessage)
                /\ cached' = cached
                /\ OthersUntouched(c)
          /\ CrumbTimedOut(c) =>
                /\ calls'[c].pc = "http" /\ ~calls'[c].outcome.thrown
                /\ calls'[c].sent = calls[c].cfg
                /\ cached'.set /\ cached'.value = NullCrumb
                /\ OthersUntouched(c)]_vars

C19_Witness ==
    \E c, d \in Calls :
        /\ calls[c].pc = "done" /\ calls[c].response = TimeoutMessage
        /\ calls[c].outcome.code = "InternalError"
        /\ calls[d].pc = "http" /\ calls[d].crumbError = "timeout"
        /\ cached.set /\ cached.value # NullCrumb

\* C20: one invocation issues at most one resource request and at most one
\* crumb GET, and once its resource request has failed the call has ended
\* in that error.
C20_NoRetry ==
    \A c \in Calls :
        /\ calls[c].http <= 1 /\ calls[c].gets <= 1
        /\ calls[c].response \in HttpErrors =>
              /\ calls[c].pc = "done" /\ calls[c].http = 1
              /\ calls[c].outcome.thrown
              /\ calls[c].outcome.msg =
                    "Failed to execute tool " \o calls[c].tool \o ": " \o calls[c].response

C20_Witness ==
    \E c \in Calls :
        /\ calls[c].tool = "build_item" /\ calls[c].pc = "done"
        /\ calls[c].response = "Request failed with status code 500"
        /\ calls[c].http = 1 /\ calls[c].gets = 1 /\ calls[c].outcome.thrown

-----------------------------------------------------------------------------
(* Claims about build_item, the configuration and the transport.           *)

\* `parameters` is given and is not a plain object whose values are all
\* strings
BadParameters(v) ==
    \/ v.k \in {"array", "null", "string", "number"}
    \/ v = Obj("{N:1}")

\* C21 as stated: whenever build_item is given parameters that are not a
\* plain object of strings, the call fails with a validation error and no
\* HTTP request is issued.
C21_ParametersValidated ==
    \A c \in Calls :
        (/\ calls[c].pc # "idle" /\ calls[c].tool = "build_item" /\ calls[c].ran
         /\ BadParameters(Get(calls[c].args, "parameters"))) =>
            /\ calls[c].pc = "done" /\ calls[c].outcome.thrown
            /\ NoRequest(calls[c])

\* the setting is written as a positive integer
IsPositiveIntString(v) ==
    v.k = "string" /\ v.s # "" /\ AllDigits(v.s) /\ DecimalValue(v.s) > 0

\* C22 as stated: loading yields timeout 5 when the setting is unset or
\* empty, the given value when it is a positive integer, and fails for
\* every other given value; the transport's timeout is that number of
\* seconds.
C22_TimeoutIsPositiveInteger ==
    (jenkinsConfig.done /\ jenkinsConfig.fromEnv /\ Trim(OrElse(env.JENKINS_URL, Str("")).s) # "") =>
        /\ IF env.JENKINS_TIMEOUT \in {Undefined, Str("")}
           THEN ~jenkinsConfig.thrown /\ jenkinsConfig.cfg.timeout = Num(5)
           ELSE IF IsPositiveIntString(env.JENKINS_TIMEOUT)
           THEN ~jenkinsConfig.thrown
                    /\ jenkinsConfig.cfg.timeout = Num(DecimalValue(env.JENKINS_TIMEOUT.s))
           ELSE jenkinsConfig.thrown
        /\ axiosConfig.built => axiosConfig.timeout = jenkinsConfig.cfg.timeout.n * 1000

\* C23: the loaded verify flag is false only when the setting is exactly
\* "false", and a client built from a config whose verify flag is true or
\* absent rejects unverified peers.
C23_TlsVerifiedUnlessDisabled ==
    /\ (jenkinsConfig.done /\ jenkinsConfig.fromEnv /\ ~jenkinsConfig.thrown) =>
          /\ jenkinsConfig.cfg.verifySSL \in {Bool(TRUE), Bool(FALSE)}
          /\ jenkinsConfig.cfg.verifySSL = Bool(FALSE) <=> env.JENKINS_VERIFY_SSL = Str("false")
    /\ axiosConfig.built =>
          /\ jenkinsConfig.cfg.verifySSL \in {Bool(TRUE), Undefined}
                => axiosConfig.rejectUnauthorized
          /\ ~axiosConfig.rejectUnauthorized => jenkinsConfig.cfg.verifySSL = Bool(FALSE)

C23_Witness ==
    /\ env.JENKINS_VERIFY_SSL = Str("FALSE")
    /\ jenkinsConfig.done /\ jenkinsConfig.cfg.verifySSL = Bool(TRUE)
    /\ axiosConfig.built /\ axiosConfig.rejectUnauthorized

\* C24: buildItem posts to /job/<encoded>/build when no parameters are
\* given and to /job/<encoded>/buildWithParameters when they are, an empty
\* map included, for every full name.
C24_TriggerPathByParameters ==
    endpoint # "" =>
        endpoint = "/job/" \o encodeJobName(fullName)
                       \o (IF parameters = Undefined THEN "/build"
                           ELSE "/buildWithParameters")

C24_Witness ==
    /\ fullName = "a b/job" /\ parameters = Obj("{}")
    /\ endpoint = "/job/a%20b/job/job/buildWithParameters"

\* a crumb GET is in flight
FetchInFlight == \E c \in Calls : calls[c].pc = "crumb"

\* the step is a reset(): the cache changes and no call moves
IsResetStep == cached' # cached /\ calls' = calls

\* C25: reset() leaves the issuer UNRESOLVED; a call that starts on an
\* empty cache with no fetch in flight issues exactly one crumb GET, and
\* when that GET completes its result is the cache.
C25_ResetThenOneFetch ==
    [][/\ IsResetStep => CrumbState' = "UNRESOLVED" /\ cached' = NotCached
       /\ \A c \in Calls :
            /\ (calls[c].pc = "idle" /\ calls'[c].pc # "idle"
                    /\ ~cached.set /\ ~FetchInFlight) =>
                  /\ calls'[c].sawState = "UNRESOLVED"
                  /\ calls'[c].pc = "crumb" /\ calls'[c].gets = 1
            /\ (calls[c].pc = "crumb" /\ calls'[c].pc # "crumb") =>
                  /\ calls'[c].gets = 1
                  /\ cached' = [set |-> TRUE, value |-> calls'[c].crumb,
                                cachedAt |-> now]]_vars

\* a call that started UNRESOLVED although an earlier fetch had failed and
\* the issuer has no TTL (so reset() was called), fetched a crumb that is
\* now the cache
C25_Witness ==
    /\ cacheTtlMs = 0
    /\ \E c \in Calls :
        /\ calls[c].pc = "done" /\ calls[c].afterFail
        /\ calls[c].sawState = "UNRESOLVED" /\ calls[c].saw = NotCached
        /\ calls[c].gets = 1 /\ ~calls[c].crumb.null
        /\ cached.set /\ cached.value = calls[c].crumb
        /\ \A d \in Calls \ {c} : calls[d].pc = "idle"

\* call c starts in this step
Starts(c) == calls[c].pc = "idle" /\ calls'[c].pc # "idle"

\* C26: a call that starts on a cached crumb reuses it without a crumb GET
\* when the issuer has no TTL or the crumb's age is at most the TTL; once
\* the age is past the TTL the first call issues exactly one crumb GET, and
\* the completed GET caches its result with age zero.
C26_ResolvedReusedWithinTtl ==
    [][\A c \in Calls :
        /\ (Starts(c) /\ cached.set /\ ~cached.value.null) =>
              IF cacheTtlMs = 0 \/ now - cached.cachedAt <= cacheTtlMs
              THEN /\ calls'[c].gets = 0 /\ calls'[c].pc = "done"
                   /\ calls'[c].crumb = cached.value
                   /\ cached' = cached
              ELSE /\ calls'[c].pc = "crumb" /\ calls'[c].gets = 1
                   /\ cached' = cached
        /\ (calls[c].pc = "crumb" /\ calls'[c].pc # "crumb") =>
              /\ calls'[c].gets = 1
              /\ cached'.value = calls'[c].crumb /\ now - cached'.cachedAt = 0]_vars

\* a call that started on a crumb older than the TTL has fetched once and
\* its crumb is cached with age zero
C26_Witness ==
    \E c \in Calls :
        /\ cacheTtlMs > 0 /\ calls[c].pc = "done"
        /\ calls[c].saw.set /\ ~calls[c].saw.value.null
        /\ calls[c].sawState = "UNRESOLVED" /\ calls[c].gets = 1
        /\ ~calls[c].crumb.null /\ cached.value = calls[c].crumb
        /\ cached.cachedAt = now /\ now > calls[c].saw.cachedAt + cacheTtlMs

\* C29 as stated: a crumb GET that was in flight when reset() was called
\* does not repopulate the cache when it completes.  (A call that started
\* on a cached entry and is still fetching while the cache is empty has
\* seen a reset() during its GET: only reset() empties the cache.)
C29_ResetDiscardsInFlightFetch ==
    [][\A c \in Calls :
        (/\ calls[c].pc = "crumb" /\ calls'[c].pc # "crumb"
         /\ calls[c].saw.set /\ ~cached.set) => ~cached'.set]_vars

\* the read operations of the registry
ReadTools == RegistryKeys \ MutatingTools

\* C27: under any interleaving of concurrent calls a read operation issues
\* no crumb GET and no step of it changes the cache; the cache changes only
\* when the crumb GET of build_item, stop_build or cancel_queue_item
\* completes.
C27_ReadsLeaveTheCrumbAlone ==
    [][/\ \A c \in Calls :
            (calls'[c].pc # "idle" /\ calls'[c].tool \in ReadTools) =>
                /\ calls'[c].gets = 0 /\ ~calls'[c].fetched
                /\ calls'[c].pc # "crumb"
                /\ calls'[c] # calls[c] => cached' = cached
       /\ cached' # cached =>
            \E c \in Calls :
                /\ calls[c].pc = "crumb"
                /\ calls[c].tool \in {"build_item", "stop_build", "cancel_queue_item"}]_vars

\* a read operation that started on an empty cache has its answer while
\* the crumb of a concurrent mutating call is cached
C27_Witness ==
    \E c, d \in Calls :
        /\ calls[c].tool = "get_all_nodes" /\ calls[c].pc = "done"
        /\ calls[c].response = "2xx" /\ calls[c].saw = NotCached
        /\ calls[d].tool = "stop_build" /\ calls[d].pc = "http"
        /\ cached.set /\ cached.value = calls[d].crumb

\* the names tools/list answered
AdvertisedNames == {advertised[i] : i \in 1..Len(advertised)}

\* C28: tools/list answers 15 distinct names, they are the own keys of the
\* registry, and a call is dispatched to an own handler exactly when its
\* name is advertised.
C28_AdvertisedIsRegistry ==
    advertised # <<>> =>
        /\ Len(advertised) = 15 /\ Cardinality(AdvertisedNames) = 15
        /\ AdvertisedNames = RegistryKeys
        /\ \A c \in Calls : calls[c].pc # "idle" =>
              /\ calls[c].tool \in AdvertisedNames <=> registry(calls[c].tool) = "own"
              /\ (calls[c].tool \in AdvertisedNames /\ calls[c].pc = "done")
                    => calls[c].outcome.code # "MethodNotFound"

C28_Witness ==
    /\ advertised = tools
    /\ calls[1].tool = advertised[15] /\ calls[1].pc = "done"
    /\ calls[1].ran /\ ~calls[1].outcome.thrown

\* call c issues its POST in this step
IssuesPost(c) ==
    /\ calls[c].http = 0 /\ calls'[c].http = 1
    /\ calls'[c].tool \in MutatingTools

\* C30: under any interleaving of concurrent mutating calls a POST is
\* issued only once the call's own crumb resolution has answered, and a
\* POST issued while the issuer is RESOLVED carries the cached token under
\* the cached field name.
C30_PostAfterOwnResolution ==
    [][\A c \in Calls : IssuesPost(c) =>
          /\ calls'[c].resolved /\ calls'[c].pc = "http"
          /\ calls'[c].sent = calls'[c].out
          /\ CrumbState' = "RESOLVED" =>
                /\ <<cached'.value.field, cached'.value.crumb>> \in calls'[c].sent.headers
                /\ \A h \in calls'[c].sent.headers :
                      h[1] = cached'.value.field => h[2] = cached'.value.crumb]_vars

\* two concurrent mutating calls fetched different crumbs; each POST went
\* out with the crumb its own resolution answered
C30_Witness ==
    \E c, d \in Calls :
        /\ calls[c].tool = "build_item" /\ calls[d].tool = "stop_build"
        /\ calls[c].http = 1 /\ calls[d].http = 1
        /\ calls[c].fetched /\ calls[d].fetched
        /\ calls[c].crumb = Crumb("t1", "Jenkins-Crumb")
        /\ calls[d].crumb = Crumb("t2", ".crumb")
        /\ <<"Jenkins-Crumb", "t1">> \in calls[c].sent.headers
        /\ <<".crumb", "t2">> \in calls[d].sent.headers

====
